---- MODULE Spec2Model ----
(***************************************************************************)
(* A model of the world generator: the H3 grid (GridSystem), the terrain   *)
(* synthesizer (HeightMapGenerator), the climate model (ClimateSimulator), *)
(* the biome table (BiomeClassifier) and the two-pass pipeline             *)
(* (WorldSimulator).                                                       *)
(*                                                                         *)
(* Numbers.  TLA+ has integers only, so every real quantity is fixed       *)
(* point:                                                                  *)
(*   angles (latitude, longitude)        deci-degrees   (900 = 90 degrees) *)
(*   sines, cosines, noise, elevation,                                     *)
(*   seaLevel, atmosphereDensity         thousandths    (1000 = 1.0)       *)
(*   metres (elevation * 10000)          thousandths of a metre            *)
(*   temperature                         hundredths of a degree C          *)
(*   precipitation                       tenths of a millimetre            *)
(*   distances                           kilometres                        *)
(* JavaScript's NaN and undefined are the two sentinels NaN and Undef.     *)
(***************************************************************************)
EXTENDS Integers, Sequences, FiniteSets, TLC

VARIABLES config, sims, grid, call

vars == <<config, sims, grid, call>>

(***************************************************************************)
(* JavaScript numbers                                                      *)
(***************************************************************************)
NaN == 0 - 99999999

Undef == 0 - 99999998

IsNum(a) == a # NaN /\ a # Undef

\* a < b in JavaScript: false as soon as one side is NaN (undefined converts to NaN)
JsLt(a, b) == IsNum(a) /\ IsNum(b) /\ a < b

JsGt(a, b) == JsLt(b, a)

\* Math.max(a, b): NaN as soon as one argument is NaN
JsMax(a, b) == IF ~IsNum(a) \/ ~IsNum(b) THEN NaN ELSE IF a > b THEN a ELSE b

Abs(a) == IF a < 0 THEN 0 - a ELSE a

Sign(a) == IF a > 0 THEN 1 ELSE IF a < 0 THEN 0 - 1 ELSE 0

\* a / b rounded toward zero (TLA+'s \div rounds toward minus infinity)
Quot(a, b) == Sign(a) * Sign(b) * (Abs(a) \div Abs(b))

RECURSIVE Pow(_, _)
Pow(b, e) == IF e = 0 THEN 1 ELSE b * Pow(b, e - 1)

RECURSIVE SqrtIter(_, _)
SqrtIter(n, x) ==
    LET y == (x + n \div x) \div 2
    IN  IF y >= x THEN x ELSE SqrtIter(n, y)

\* floor of the square root (Newton's iteration from above)
ISqrt(n) == IF n <= 0 THEN 0 ELSE IF n < 4 THEN 1 ELSE SqrtIter(n, n \div 2)

(***************************************************************************)
(* Math: trigonometry on deci-degrees, results in thousandths              *)
(***************************************************************************)
\* sin of d deci-degrees, 0 <= d <= 1800 (Bhaskara's rational approximation,
\* exact at 0, 30, 90, 150 and 180 degrees)
SinHalfTurn(d) ==
    LET p == d * (1800 - d)
    IN  (400 * p) \div ((4050000 - p) \div 10)

\* Math.sin
Sin(d) ==
    LET m == d % 3600
    IN  IF m <= 1800 THEN SinHalfTurn(m) ELSE 0 - SinHalfTurn(m - 1800)

\* Math.cos
Cos(d) == Sin(d + 900)

RECURSIVE AsinSearch(_, _, _)
AsinSearch(s, lo, hi) ==
    IF hi - lo <= 1 THEN lo
    ELSE LET mid == (lo + hi) \div 2
         IN  IF SinHalfTurn(mid) <= s THEN AsinSearch(s, mid, hi) ELSE AsinSearch(s, lo, mid)

\* Math.asin of s thousandths, 0 <= s <= 1000, in deci-degrees
Asin(s) == IF s >= 1000 THEN 900 ELSE AsinSearch(s, 0, 900)

RECURSIVE AtanSearch(_, _, _, _)
AtanSearch(y, x, lo, hi) ==
    IF hi - lo <= 1 THEN lo
    ELSE LET mid == (lo + hi) \div 2
         IN  IF Sin(mid) * x <= Cos(mid) * y
             THEN AtanSearch(y, x, mid, hi) ELSE AtanSearch(y, x, lo, mid)

\* Math.atan2(y, x) in deci-degrees, in (-1800, 1800]
Atan2(y, x) ==
    LET k == (IF Abs(x) > Abs(y) THEN Abs(x) ELSE Abs(y)) \div 1000000 + 1
        q == IF x = 0 /\ y = 0 THEN 0
             ELSE IF x = 0 THEN 900
             ELSE AtanSearch(Abs(y) \div k, Abs(x) \div k, 0, 901)
    IN  IF x >= 0 THEN Sign(y) * q
        ELSE IF y >= 0 THEN 1800 - q ELSE q - 1800

\* Math.exp(-d / 1000) in thousandths, d >= 0: e^-1 per whole thousand, then
\* the Taylor polynomial of degree 5 on the rest
RECURSIVE ExpNeg(_)
ExpNeg(d) ==
    IF d >= 1000 THEN (368 * ExpNeg(d - 1000)) \div 1000
    ELSE 1000 - d + (d * d) \div 2000 - (((d * d) \div 1000) * d) \div 6000
              + ((((((d * d) \div 1000) * d) \div 1000) * d) \div 24000)
              - ((((((((d * d) \div 1000) * d) \div 1000) * d) \div 1000) * d) \div 120000)

(***************************************************************************)
(* The H3 library (h3-js), which the repository imports.  latLngToCell is  *)
(* a total function onto the cells of a resolution; the number of cells of *)
(* a resolution is the README's table, 2 + 120 * 7^r.  The partition used  *)
(* here has that many cells: H3Rows(r) + 2 latitude rows of equal height,  *)
(* the first and the last one a single polar cell, every other row cut in  *)
(* H3Cols(r) cells of equal width.                                         *)
(***************************************************************************)
H3Rows(r) == IF r % 2 = 0 THEN 8 * Pow(7, r \div 2) ELSE 20 * Pow(7, (r - 1) \div 2)

H3Cols(r) == IF r % 2 = 0 THEN 15 * Pow(7, r \div 2) ELSE 42 * Pow(7, (r - 1) \div 2)

H3CellCount(r) == 2 + H3Rows(r) * H3Cols(r)

\* the library receives the resolution as a 32-bit integer: NaN arrives as 0
H3Res(r) == IF IsNum(r) THEN r ELSE 0

latLngToCell(lat, lng, resolution) ==
    LET r    == H3Res(resolution)
        rows == H3Rows(r) + 2
        raw  == ((900 - lat) * rows) \div 1800
        row  == IF raw > rows - 1 THEN rows - 1 ELSE raw
        col  == (((lng + 1800) * H3Cols(r)) \div 3600) % H3Cols(r)
    IN  IF row = 0 \/ row = rows - 1 THEN <<r, row, 0>> ELSE <<r, row, col>>

cellToLatLng(cellId) ==
    LET r    == cellId[1]
        rows == H3Rows(r) + 2
    IN  IF cellId[2] = 0 THEN <<900, 0>>
        ELSE IF cellId[2] = rows - 1 THEN <<0 - 900, 0>>
        ELSE <<900 - ((2 * cellId[2] + 1) * 900) \div rows,
               ((2 * cellId[3] + 1) * 1800) \div H3Cols(r) - 1800>>

(***************************************************************************)
(* GridSystem                                                              *)
(***************************************************************************)
\* the sample latitude and longitude of initializeCells
SampleLat(latIdx, latSteps) == 900 - (latIdx * 1800) \div latSteps

SampleLng(lngIdx, lngSteps) == (lngIdx * 3600) \div lngSteps - 1800

JsTimes(a, b) == IF ~IsNum(a) \/ ~IsNum(b) THEN NaN ELSE a * b

LatSteps(resolution) == JsMax(10, JsTimes(resolution, 20))

LngSteps(resolution) == JsMax(20, JsTimes(resolution, 40))

\* the number of iterations of a loop "for (i = 0; i < steps; i++)"
LoopCount(steps) == IF JsLt(0, steps) THEN steps ELSE 0

\* the id added by the n-th iteration (n from 0) of the nested sampling loops
SampleId(n, resolution) ==
    latLngToCell(SampleLat(n \div LngSteps(resolution), LatSteps(resolution)),
                 SampleLng(n % LngSteps(resolution), LngSteps(resolution)),
                 resolution)

\* allCells: a Set keeps one entry per id and iterates in insertion order
SampledIds(resolution) ==
    LET total == LoopCount(LatSteps(resolution)) * LoopCount(LngSteps(resolution))
        id    == [n \in 1..total |-> SampleId(n - 1, resolution)]
        added == SelectSeq([n \in 1..total |-> <<n, id[n]>>],
                           LAMBDA p : \A m \in 1..(p[1] - 1) : id[m] # p[2])
    IN  [k \in 1..Len(added) |-> added[k][2]]

GridCellOf(cellId) ==
    [cellId |-> cellId, latitude |-> cellToLatLng(cellId)[1],
     longitude |-> cellToLatLng(cellId)[2]]

\* this.cells after initializeCells: one GridCell per sampled id, in insertion order
initializeCells(resolution) ==
    LET ids == SampledIds(resolution)
    IN  [n \in 1..Len(ids) |-> GridCellOf(ids[n])]

ResolutionRejected(resolution) == JsLt(resolution, 0) \/ JsGt(resolution, 15)

\* new GridSystem(resolution): the object, or the thrown error
NewGridSystem(resolution) ==
    IF ResolutionRejected(resolution)
    THEN [status |-> "threw", resolution |-> resolution, cells |-> <<>>]
    ELSE [status |-> "ok", resolution |-> resolution, cells |-> initializeCells(resolution)]

GridIds(g) == {g.cells[n].cellId : n \in 1..Len(g.cells)}

(***************************************************************************)
(* ClimateSimulator                                                        *)
(***************************************************************************)
\* a || b on numbers: b when a is 0, NaN or undefined
JsOr(a, b) == IF a = 0 \/ ~IsNum(a) THEN b ELSE a

\* a ?? b: b when a is undefined
JsNullish(a, b) == IF a = Undef THEN b ELSE a

isTidallyLocked(params) == JsGt(params.rotationPeriod, 1000)

\* the locked-regime insolation without the ambient floor
LockedInsolationNoFloor(params, latitude, longitude) ==
    LET angularDistance    == Abs(longitude - 0)
        normalizedDistance == IF angularDistance < 3600 - angularDistance
                              THEN angularDistance ELSE 3600 - angularDistance
        latDistanceFactor  == Quot(Cos(normalizedDistance) * Cos(latitude), 1000)
    IN  params.solarConstant * (IF latDistanceFactor > 0 THEN latDistanceFactor ELSE 0)

\* the locked-regime insolation, in thousandths of W/m2
LockedInsolation(params, latitude, longitude) ==
    LET angularDistance    == Abs(longitude - 0)
        normalizedDistance == IF angularDistance < 3600 - angularDistance
                              THEN angularDistance ELSE 3600 - angularDistance
        latDistanceFactor  == Quot(Cos(normalizedDistance) * Cos(latitude), 1000)
        direct             == params.solarConstant *
                                 (IF latDistanceFactor > 0 THEN latDistanceFactor ELSE 0)
        minAmbientTemp     == params.atmosphereDensity * 5
    IN  IF direct > minAmbientTemp THEN direct ELSE minAmbientTemp

\* the rotating-regime insolation, in thousandths of W/m2
RotatingInsolation(params, latitude, seasonalDay) ==
    IF params.orbitalPeriod = 0 THEN NaN
    ELSE
    LET seasonalAngle == (seasonalDay * 3600) \div params.orbitalPeriod
        declination   == Quot(params.orbitalTilt * Sin(seasonalAngle), 1000)
        timeOfDay     == JsOr(params.timeOfDay, 12)
        hourAngle     == (timeOfDay - 12) * 150
        sinElevation  == Quot(Sin(latitude) * Sin(declination), 1000)
                           + Quot(Quot(Cos(latitude) * Cos(declination), 1000)
                                    * Cos(hourAngle), 1000)
        direct        == params.solarConstant *
                            (IF sinElevation > 0 THEN sinElevation ELSE 0)
        ratio         == (params.rotationPeriod * 1000) \div 24
        rotationDampening      == IF ratio < 1000 THEN ratio ELSE 1000
        nighttimeTempRetention ==
            (params.atmosphereDensity * 3 * (1000 - rotationDampening)) \div 10000
    IN  IF direct = 0 THEN params.solarConstant * nighttimeTempRetention ELSE direct

\* the insolation calculateTemperature converts to a temperature
Insolation(params, latitude, longitude, seasonalDay) ==
    IF isTidallyLocked(params)
    THEN LockedInsolation(params, latitude, longitude)
    ELSE RotatingInsolation(params, latitude, seasonalDay)

\* Stefan-Boltzmann with albedo 0.3: (insolation * 0.7 / (4 * 5.67e-8)) ^ 0.25
\* - 273.15, that is 41.915 * insolation ^ 0.25 kelvin; hundredths of a degree C
insolationToTemperature(insolation) ==
    IF ~IsNum(insolation) \/ insolation < 0 THEN NaN
    ELSE LET root2 == ISqrt(insolation * 100)
             root4 == ISqrt(root2 * 10000)
         IN  (root4 * 23570) \div 10000 - 27315

\* the lapse-rate term: -6.5 degrees C per 1000 of (elevation - seaLevel)
LapseAdjustment(params, elevation) ==
    0 - Quot(65 * (elevation - params.seaLevel), 100000)

\* baseTemp + lapseRateAdjustment + atmosphericEffect (atmosphereDensity * 15)
TemperatureAt(params, baseTemp, elevation) ==
    IF ~IsNum(baseTemp) \/ ~IsNum(elevation) THEN NaN
    ELSE baseTemp + LapseAdjustment(params, elevation) + (params.atmosphereDensity * 3) \div 2

calculateTemperature(params, latitude, longitude, elevation, seasonalDay) ==
    TemperatureAt(params,
                  insolationToTemperature(Insolation(params, latitude, longitude, seasonalDay)),
                  elevation)

\* the latitude bands of calculatePrecipitation, tenths of a millimetre
BaseRainfall(latitude) ==
    LET absLat == Abs(latitude)
    IN  IF absLat < 100 THEN 25000
        ELSE IF absLat < 300 THEN 15000 - (absLat - 100) * 50
        ELSE IF absLat < 600 THEN 5000 + (absLat - 300) * 10
        ELSE 3000

\* tempFactor * 500, tenths of a millimetre
TempEffect(temperature) ==
    LET scaled == Quot((temperature + 1000) * 5, 4)
    IN  IF scaled > 0 THEN scaled ELSE 0

calculatePrecipitation(params, latitude, elevation, temperature, distanceToOcean) ==
    IF ~IsNum(elevation) \/ ~IsNum(temperature) THEN NaN
    ELSE
    LET above          == elevation - params.seaLevel
        orographicLift == IF above > 0 THEN (above * 2) \div 1000 ELSE 0
        oceanEffect    == ExpNeg(distanceToOcean) * 5
        totalPrecipitation ==
            BaseRainfall(latitude) + orographicLift + TempEffect(temperature) + oceanEffect
    IN  IF totalPrecipitation > 0 THEN totalPrecipitation ELSE 0

\* the returned record once the temperature is known.  humidity and windSpeed
\* of calculateClimate are computed and dropped by the pipeline
ClimateAt(params, latitude, elevation, temperature, distanceToOcean) ==
    [temperature   |-> temperature,
     precipitation |-> calculatePrecipitation(params, latitude, elevation,
                                              temperature, distanceToOcean)]

calculateClimate(params, latitude, longitude, elevation, distanceToOcean) ==
    ClimateAt(params, latitude, elevation,
              calculateTemperature(params, latitude, longitude, elevation, 0),
              distanceToOcean)

(***************************************************************************)
(* BiomeClassifier                                                         *)
(***************************************************************************)
BiomeType ==
    {"Ocean", "Ice", "Tundra", "Taiga", "Temperate Forest", "Temperate Grassland",
     "Desert", "Savanna", "Tropical Rainforest", "Tropical Seasonal Forest",
     "Alpine", "Subtropical Desert"}

\* the bands of 20 <= temperature < 25 with "Desert" as the driest one
WarmBandDesert(precipitation) ==
    IF JsLt(precipitation, 2000) THEN "Desert"
    ELSE IF JsLt(precipitation, 5000) THEN "Temperate Grassland"
    ELSE IF JsLt(precipitation, 10000) THEN "Temperate Forest"
    ELSE "Tropical Seasonal Forest"

\* the precipitation bands of 20 <= temperature < 25
WarmBand(precipitation) ==
    IF JsLt(precipitation, 2000) THEN "Subtropical Desert"
    ELSE IF JsLt(precipitation, 5000) THEN "Temperate Grassland"
    ELSE IF JsLt(precipitation, 10000) THEN "Temperate Forest"
    ELSE "Tropical Seasonal Forest"

\* the bands of temperature >= 25 without the final return: the function
\* returns undefined when no band matches
HotBandUnmatched(precipitation) ==
    IF JsLt(precipitation, 2500) THEN "Desert"
    ELSE IF JsLt(precipitation, 5000) THEN "Subtropical Desert"
    ELSE IF JsLt(precipitation, 10000) THEN "Savanna"
    ELSE IF JsLt(precipitation, 20000) THEN "Tropical Seasonal Forest"
    ELSE "undefined"

\* the precipitation bands of temperature >= 25, down to the final return
HotBand(precipitation) ==
    IF JsLt(precipitation, 2500) THEN "Desert"
    ELSE IF JsLt(precipitation, 5000) THEN "Subtropical Desert"
    ELSE IF JsLt(precipitation, 10000) THEN "Savanna"
    ELSE IF JsLt(precipitation, 20000) THEN "Tropical Seasonal Forest"
    ELSE "Tropical Rainforest"

\* the temperature rows below the ocean and alpine rules
ClimateRows(temperature, precipitation) ==
    IF JsLt(temperature, 0 - 1500) THEN "Ice"
    ELSE IF JsLt(temperature, 0) THEN "Tundra"
    ELSE IF JsLt(temperature, 1000)
         THEN (IF JsLt(precipitation, 4000) THEN "Tundra" ELSE "Taiga")
    ELSE IF JsLt(temperature, 2000)
         THEN (IF JsLt(precipitation, 2500) THEN "Temperate Grassland"
               ELSE IF JsLt(precipitation, 5000) THEN "Temperate Grassland"
               ELSE "Temperate Forest")
    ELSE IF JsLt(temperature, 2500) THEN WarmBand(precipitation)
    ELSE HotBand(precipitation)

\* the rules with the temperature rows tested before the alpine rule
classifyBiomeClimateFirst(seaLevel, temperature, precipitation, elevation) ==
    IF JsLt(elevation, seaLevel) THEN "Ocean"
    ELSE IF JsLt(temperature, 0) THEN ClimateRows(temperature, precipitation)
    ELSE IF JsGt(elevation, seaLevel + 4000000) THEN "Alpine"
    ELSE ClimateRows(temperature, precipitation)

\* classifyBiome of a BiomeClassifier constructed with seaLevel
classifyBiome(seaLevel, temperature, precipitation, elevation) ==
    IF JsLt(elevation, seaLevel) THEN "Ocean"
    ELSE IF JsGt(elevation, seaLevel + 4000000) THEN "Alpine"
    ELSE ClimateRows(temperature, precipitation)

(***************************************************************************)
(* HeightMapGenerator.  Strings are sequences of character codes; an       *)
(* absent seed is NoSeed.  redistributionPower counts halves (4 = 2.0).    *)
(***************************************************************************)
NoSeed == <<Undef>>

\* one step of the hash, on the unsigned 32-bit value <<high 16 bits, low 16 bits>>:
\* ((hash << 5) - hash) + charCode, folded to 32 bits by hash & hash
HashStep(hash, charCode) ==
    LET lo == hash[2] * 31 + charCode
        hi == hash[1] * 31 + lo \div 65536
    IN  <<hi % 65536, lo % 65536>>

RECURSIVE HashFrom(_, _, _)
HashFrom(hash, seed, i) ==
    IF i > Len(seed) THEN hash ELSE HashFrom(HashStep(hash, seed[i]), seed, i + 1)

\* Math.abs of the signed value of an unsigned 32-bit <<high, low>>, as <<high, low>>
AbsInt32(hash) ==
    IF hash[1] < 32768 THEN hash
    ELSE IF hash[2] = 0 THEN <<65536 - hash[1], 0>>
    ELSE <<65535 - hash[1], 65536 - hash[2]>>

\* seedToRandom: Math.abs(hash) / 2147483648, as the numerator <<high, low>>
seedToRandom(seed) == AbsInt32(HashFrom(<<0, 0>>, seed, 1))

\* the noise function createNoise3D builds from a random source that returns
\* `random` on every call: a fixed function of the point for each value of
\* `random`, with values in [-1, 1] (thousandths)
noise3D(random, x, y, z) ==
    ((random[1] * 7 + random[2] * 13 + x * 31 + y * 17 + z * 5) % 2001) - 1000

\* a constructor that ignores config.seed
SeedAlwaysRandom(seed, randomString) == randomString

\* config.seed || Math.random().toString()
SeedOrRandom(seed, randomString) ==
    IF seed = NoSeed \/ seed = <<>> THEN randomString ELSE seed

\* new HeightMapGenerator(config); randomString is what Math.random().toString() returns
NewHeightMapGenerator(noiseConfig, randomString) ==
    LET seed == SeedOrRandom(noiseConfig.seed, randomString)
    IN  [seed        |-> seed,
         random      |-> seedToRandom(seed),
         octaves     |-> JsNullish(noiseConfig.octaves, 6),
         persistence |-> JsNullish(noiseConfig.persistence, 500),
         lacunarity  |-> JsNullish(noiseConfig.lacunarity, 2000),
         scale       |-> JsNullish(noiseConfig.scale, 1000),
         redistributionPower |-> JsNullish(noiseConfig.redistributionPower, 4)]

latLngToSphere(lat, lng) ==
    LET phi   == 900 - lat
        theta == lng + 1800
    IN  <<Quot(Sin(phi) * Cos(theta), 1000), Quot(Sin(phi) * Sin(theta), 1000), Cos(phi)>>

RECURSIVE FbmLoop(_, _, _, _, _, _, _)
FbmLoop(gen, point, i, total, frequency, amplitude, maxValue) ==
    IF ~(i < gen.octaves)
    THEN (IF maxValue = 0 THEN NaN ELSE Quot(total, maxValue))
    ELSE FbmLoop(gen, point, i + 1,
                 total + noise3D(gen.random,
                                 Quot(point[1] * frequency, 1000),
                                 Quot(point[2] * frequency, 1000),
                                 Quot(point[3] * frequency, 1000)) * amplitude,
                 Quot(frequency * gen.lacunarity, 1000),
                 Quot(amplitude * gen.persistence, 1000),
                 maxValue + amplitude)

fbm(gen, point) == FbmLoop(gen, point, 0, 0, gen.scale, 1000, 0)

RECURSIVE PowHalves(_, _)
\* Math.pow(value, halves / 2) for value in [0, 1], thousandths
PowHalves(value, halves) ==
    IF halves <= 0 THEN 1000
    ELSE IF halves = 1 THEN ISqrt(value * 1000)
    ELSE (value * PowHalves(value, halves - 2)) \div 1000

getElevationAtLatLng(gen, lat, lng) ==
    LET raw == fbm(gen, latLngToSphere(lat, lng))
    IN  IF ~IsNum(raw) THEN NaN
        ELSE PowHalves((raw + 1000) \div 2, gen.redistributionPower)

\* a % b of JavaScript on integers: the sign of a, NaN when b is 0
JsMod(a, b) == IF ~IsNum(a) \/ ~IsNum(b) \/ b = 0 THEN NaN ELSE Sign(a) * (Abs(a) % Abs(b))

NoHeightMap == [width |-> Undef, height |-> Undef, data |-> <<>>]

\* y * width + x from the column and the row
IndexOf(x, y, width) == IF IsNum(x) /\ IsNum(y) THEN y * width + x ELSE NaN

\* an index whose row is not reduced modulo height
HeightMapIndexNoWrap(heightMapData, lat, lng) ==
    IndexOf(JsMod(((lng + 1800) * heightMapData.width) \div 3600, heightMapData.width),
            IF heightMapData.height = 0 THEN NaN
            ELSE ((900 - lat) * heightMapData.height) \div 1800,
            heightMapData.width)

\* the index loadFromHeightMap reads
HeightMapIndex(heightMapData, lat, lng) ==
    IndexOf(JsMod(((lng + 1800) * heightMapData.width) \div 3600, heightMapData.width),
            JsMod(((900 - lat) * heightMapData.height) \div 1800, heightMapData.height),
            heightMapData.width)

\* data[index] of a Float32Array: undefined outside the array
DataAt(data, index) ==
    IF IsNum(index) /\ index >= 0 /\ index < Len(data) THEN data[index + 1] ELSE Undef

loadFromHeightMap(heightMapData, lat, lng) ==
    DataAt(heightMapData.data, HeightMapIndex(heightMapData, lat, lng))

(***************************************************************************)
(* WorldSimulator.  worldCells is a function from the stored cell ids to   *)
(* their CellData records.                                                 *)
(***************************************************************************)
initializeParameters(partial) ==
    [radius            |-> JsNullish(partial.radius, 6371000),
     solarConstant     |-> JsNullish(partial.solarConstant, 1361),
     orbitalTilt       |-> JsNullish(partial.orbitalTilt, 235),
     rotationPeriod    |-> JsNullish(partial.rotationPeriod, 24),
     orbitalPeriod     |-> JsNullish(partial.orbitalPeriod, 365),
     seaLevel          |-> JsNullish(partial.seaLevel, 500),
     atmosphereDensity |-> JsNullish(partial.atmosphereDensity, 1000),
     gridResolution    |-> JsNullish(partial.gridResolution, 4),
     timeOfDay         |-> JsNullish(partial.timeOfDay, 12)]

NoSim ==
    [status |-> "none", pc |-> "idle", params |-> initializeParameters([radius |-> Undef,
        solarConstant |-> Undef, orbitalTilt |-> Undef, rotationPeriod |-> Undef,
        orbitalPeriod |-> Undef, seaLevel |-> Undef, atmosphereDensity |-> Undef,
        gridResolution |-> Undef, timeOfDay |-> Undef]),
     grid |-> [status |-> "none", resolution |-> 0, cells |-> <<>>],
     heightMapGenerator |-> NewHeightMapGenerator([seed |-> <<48>>, octaves |-> Undef,
        persistence |-> Undef, lacunarity |-> Undef, scale |-> Undef,
        redistributionPower |-> Undef], <<48>>),
     externalHeightMap |-> NoHeightMap, worldCells |-> <<>>, i |-> 0, runs |-> 0]

\* new WorldSimulator(cfg): the constructor's statements in order; the GridSystem
\* constructor's error leaves no object behind
NewWorldSimulator(cfg, randomString) ==
    LET params == initializeParameters(cfg.parameters)
        g      == NewGridSystem(JsNullish(cfg.gridResolution, params.gridResolution))
    IN  IF g.status = "threw"
        THEN [NoSim EXCEPT !.status = "threw", !.grid = g]
        ELSE [NoSim EXCEPT !.status = "ready", !.params = params, !.grid = g,
                !.heightMapGenerator = NewHeightMapGenerator(cfg.noiseConfig, randomString),
                !.externalHeightMap = cfg.externalHeightMap]

\* great-circle distance in kilometres
haversineDistance(params, lat1, lon1, lat2, lon2) ==
    LET R     == params.radius \div 1000
        sLat  == Sin(Quot(lat2 - lat1, 2))
        sLon  == Sin(Quot(lon2 - lon1, 2))
        a     == sLat * sLat + Quot(Quot(Cos(lat1) * Cos(lat2), 1000) * (sLon * sLon), 1000)
        root  == ISqrt(IF a > 1000000 THEN 1000000 ELSE a)
        c     == 2 * Asin(root)
    IN  (((R * c) \div 100) * 3142) \div 18000

Min(S) == CHOOSE m \in S : \A n \in S : m <= n

estimateDistanceToOcean(sim, cellId) ==
    IF cellId \notin DOMAIN sim.worldCells THEN 1000
    ELSE LET cell  == sim.worldCells[cellId]
             cells == sim.grid.cells
             near  == {haversineDistance(sim.params, cell.latitude, cell.longitude,
                                         cells[n].latitude, cells[n].longitude) :
                         n \in {m \in 1..Len(cells) :
                                  /\ haversineDistance(sim.params, cell.latitude,
                                         cell.longitude, cells[m].latitude,
                                         cells[m].longitude) < 5 * 100
                                  /\ cells[m].cellId \in DOMAIN sim.worldCells
                                  /\ sim.worldCells[cells[m].cellId].isOcean}}
         IN  IF near = {} THEN 1000 ELSE Min(near)

\* the terrain sample of the first pass
CellElevation(sim, cell) ==
    IF sim.externalHeightMap # NoHeightMap
    THEN loadFromHeightMap(sim.externalHeightMap, cell.latitude, cell.longitude)
    ELSE getElevationAtLatLng(sim.heightMapGenerator, cell.latitude, cell.longitude)

\* the comparison with <= in place of <
IsOceanAtOrBelow(params, elevation) ==
    IsNum(elevation) /\ IsNum(params.seaLevel) /\ elevation <= params.seaLevel

IsOceanAt(params, elevation) == JsLt(elevation, params.seaLevel)

\* the CellData of worldCells.set, from the values the loop body computed
CellDataOf(params, cell, elevation, isOcean, climate) ==
    [cellId |-> cell.cellId, latitude |-> cell.latitude, longitude |-> cell.longitude,
     elevation |-> elevation, temperature |-> climate.temperature,
     precipitation |-> climate.precipitation,
     biome |-> classifyBiome(params.seaLevel, climate.temperature, climate.precipitation,
                             JsTimes(elevation, 10000)),
     isOcean |-> isOcean, windSpeed |-> 0, windDirection |-> 0]

DistanceToOceanOf(sim, cell, isOcean) ==
    IF isOcean THEN 0 ELSE estimateDistanceToOcean(sim, cell.cellId)

\* the record the first pass stores for a cell whose terrain sample is elevation
FirstPassRecord(sim, cell, elevation) ==
    CellDataOf(sim.params, cell, elevation, IsOceanAt(sim.params, elevation),
               calculateClimate(sim.params, cell.latitude, cell.longitude,
                                JsTimes(elevation, 10000),
                                DistanceToOceanOf(sim, cell, IsOceanAt(sim.params, elevation))))

\* the cells within 500 km, at most the first 8 in grid order
WindNeighbors(sim, latitude, longitude) ==
    LET within == SelectSeq(sim.grid.cells,
                     LAMBDA other :
                        LET dist == haversineDistance(sim.params, latitude, longitude,
                                                      other.latitude, other.longitude)
                        IN  dist > 0 /\ dist < 500)
    IN  SubSeq(within, 1, IF Len(within) < 8 THEN Len(within) ELSE 8)

RECURSIVE GradientSum(_, _, _, _, _, _)
\* the sum over the neighbours that have a record of tempDiff * Math.sign(diff),
\* diff the latitude difference (axis 1) or the longitude difference (axis 2)
GradientSum(sim, neighbors, n, own, temperature, axis) ==
    IF n > Len(neighbors) THEN 0
    ELSE LET rest == GradientSum(sim, neighbors, n + 1, own, temperature, axis)
             id   == neighbors[n].cellId
         IN  IF id \notin DOMAIN sim.worldCells THEN rest
             ELSE IF ~IsNum(rest) \/ ~IsNum(temperature)
                       \/ ~IsNum(sim.worldCells[id].temperature) THEN NaN
             ELSE rest + (temperature - sim.worldCells[id].temperature)
                           * Sign(IF axis = 1 THEN own[1] - neighbors[n].latitude
                                  ELSE own[2] - neighbors[n].longitude)

\* Math.sqrt(a * a + b * b) without overflow
Hypot(a, b) ==
    LET k == (IF Abs(a) > Abs(b) THEN Abs(a) ELSE Abs(b)) \div 30000 + 1
    IN  ISqrt(Quot(a, k) * Quot(a, k) + Quot(b, k) * Quot(b, k)) * k

BaseWindEW(latitude) ==
    IF Abs(latitude) < 300 THEN 0 - 300 ELSE IF Abs(latitude) < 600 THEN 500 ELSE 0 - 200

\* wind applies the Coriolis deflection to a body that is not tidally locked
WindIsRotating(params) == JsLt(params.rotationPeriod, 1000)

\* |2 * (2 pi / rotationPeriod) * sin(latitude)| * 100, in thousandths;
\* rotationPeriod > 0 in every input
CoriolisStrength(params, latitude) ==
    (1257 * Abs(Sin(latitude))) \div params.rotationPeriod

\* windEW after the Coriolis deflection, before the base wind is added
DeflectedEW(params, latitude, gradientNS, gradientEW) ==
    IF WindIsRotating(params)
    THEN gradientEW + Quot(Quot(CoriolisStrength(params, latitude), 10) * Sign(latitude)
                             * gradientNS, 100)
    ELSE gradientEW

\* windNS after the Coriolis deflection, which reads the deflected windEW
DeflectedNS(params, latitude, gradientNS, windEW) ==
    IF WindIsRotating(params)
    THEN gradientNS - Quot(Quot(CoriolisStrength(params, latitude), 100) * Sign(latitude)
                             * Quot(windEW, 10), 2)
    ELSE gradientNS

\* 1 + max(0, elevation - seaLevel) / 20000, in thousandths
ElevationFactor(params, elevation) ==
    IF ~IsNum(elevation) THEN NaN
    ELSE 1000 + Quot(JsMax(0, elevation - params.seaLevel), 20000)

\* Math.max(1, Math.min(50, windSpeed)), in hundredths of m/s
ClampWindSpeed(windSpeed) ==
    IF windSpeed > 5000 THEN 5000 ELSE IF windSpeed < 100 THEN 100 ELSE windSpeed

\* Math.sqrt(...) * elevationFactor, clamped; NaN passes through the clamp
ScaledWindSpeed(speed, elevationFactor) ==
    IF ~IsNum(elevationFactor) THEN NaN
    ELSE ClampWindSpeed(speed + Quot(speed, 1000) * (elevationFactor - 1000))

\* the returned record, from the final wind components
WindOfComponents(windEW, windNS, elevationFactor) ==
    [windSpeed     |-> ScaledWindSpeed(Hypot(windEW, windNS), elevationFactor),
     windDirection |-> (Atan2(windEW, windNS) + 3600) % 3600]

\* the wind from the averaged temperature gradients
WindOfGradients(params, latitude, elevation, gradientNS, gradientEW) ==
    WindOfComponents(
        DeflectedEW(params, latitude, gradientNS, gradientEW) + BaseWindEW(latitude),
        DeflectedNS(params, latitude, gradientNS,
                    DeflectedEW(params, latitude, gradientNS, gradientEW)),
        ElevationFactor(params, elevation))

\* the wind from the gradient sums over count neighbours
WindOfSums(params, latitude, elevation, sumNS, sumEW, count) ==
    IF ~IsNum(sumNS) \/ ~IsNum(sumEW)
    THEN [windSpeed |-> NaN, windDirection |-> NaN]
    ELSE WindOfGradients(params, latitude, elevation,
                         Quot(sumNS, count), Quot(sumEW, count))

WindAmong(sim, neighbors, latitude, longitude, temperature, elevation) ==
    IF Len(neighbors) = 0 THEN [windSpeed |-> 500, windDirection |-> 900]
    ELSE WindOfSums(sim.params, latitude, elevation,
            GradientSum(sim, neighbors, 1, <<latitude, longitude>>, temperature, 1),
            GradientSum(sim, neighbors, 1, <<latitude, longitude>>, temperature, 2),
            Len(neighbors))

\* wind components in hundredths of m/s
calculateWind(sim, cellId, latitude, longitude, temperature, elevation) ==
    WindAmong(sim, WindNeighbors(sim, latitude, longitude),
              latitude, longitude, temperature, elevation)

\* a second pass that also resets the precipitation of the record
SecondPassRecordResetting(sim, cell) ==
    LET cellData == sim.worldCells[cell.cellId]
        wind     == calculateWind(sim, cell.cellId, cell.latitude, cell.longitude,
                                  cellData.temperature, cellData.elevation)
    IN  [cellData EXCEPT !.windSpeed = wind.windSpeed, !.windDirection = wind.windDirection,
                         !.precipitation = 0]

\* the record of a cell after the second pass has visited it
SecondPassRecord(sim, cell) ==
    LET cellData == sim.worldCells[cell.cellId]
        wind     == calculateWind(sim, cell.cellId, cell.latitude, cell.longitude,
                                  cellData.temperature, cellData.elevation)
    IN  [cellData EXCEPT !.windSpeed = wind.windSpeed, !.windDirection = wind.windDirection]

(***************************************************************************)
(* Inputs                                                                  *)
(***************************************************************************)
QueryLats == {50 * k - 900 : k \in 0..36}

QueryLngs == {50 * k - 1800 : k \in 0..71}

\* the resolutions a GridSystem is constructed with
GridResolutions == {0 - 1, 0, 1, 16, NaN}

NoCall == [op |-> "none"]

NoGrid == [status |-> "none", resolution |-> 0, cells |-> <<>>]

Sims == {1, 2}

\* what Math.random().toString() may return
RandomStrings == {<<48, 46, 49>>, <<48, 46, 55>>}

\* how often generateWorld is called on one simulator
MaxRuns == 2

NoNoise ==
    [seed |-> NoSeed, octaves |-> Undef, persistence |-> Undef, lacunarity |-> Undef,
     scale |-> Undef, redistributionPower |-> Undef]

\* the Earth-like parameters of the presets, on the coarsest grid
EarthParameters ==
    [radius |-> 6371000, solarConstant |-> 1361, orbitalTilt |-> 235,
     rotationPeriod |-> 24, orbitalPeriod |-> Undef, seaLevel |-> 500,
     atmosphereDensity |-> 1000, gridResolution |-> 0, timeOfDay |-> Undef]

BaseConfig ==
    [parameters |-> EarthParameters, noiseConfig |-> [NoNoise EXCEPT !.seed = <<97, 98>>],
     gridResolution |-> Undef, externalHeightMap |-> NoHeightMap]

\* a 4 x 2 raster inside [0, 1], and one with samples outside
GoodRaster == [width |-> 4, height |-> 2, data |-> <<0, 500, 1000, 499, 700, 200, 501, 900>>]

WildRaster == [width |-> 4, height |-> 2, data |-> <<0, 1500, 0 - 200, 499, 700, 2000, 501, 900>>]

\* rasters whose data length is not width * height, the second one with no
\* positive dimension
ShortRaster == [width |-> 4, height |-> 2, data |-> <<0, 500, 1000>>]

EmptyRaster == [width |-> 0, height |-> 0, data |-> <<>>]

Configs ==
    {BaseConfig}
    \cup {[BaseConfig EXCEPT !.parameters.rotationPeriod = p] : p \in {999, 1000, 2802}}
    \cup {[BaseConfig EXCEPT !.parameters.seaLevel = l] : l \in {0, 200}}
    \cup {[BaseConfig EXCEPT !.parameters.radius = 1000000]}
    \cup {[BaseConfig EXCEPT !.noiseConfig.seed = sd] : sd \in {NoSeed, <<>>, <<98, 97>>}}
    \cup {[BaseConfig EXCEPT !.externalHeightMap = h] :
            h \in {GoodRaster, WildRaster, ShortRaster, EmptyRaster}}
    \cup {[BaseConfig EXCEPT !.externalHeightMap = ShortRaster, !.parameters.radius = 1000000]}
    \cup {[BaseConfig EXCEPT !.gridResolution = r] : r \in {0, 0 - 1, 16, NaN}}

(***************************************************************************)
(* Spec: one WorldSimulator, constructed and run cell by cell              *)
(***************************************************************************)
Construct(k) ==
    /\ sims[k].status = "none"
    /\ \E randomString \in RandomStrings :
          sims' = [sims EXCEPT ![k] = NewWorldSimulator(config, randomString)]
    /\ UNCHANGED <<config, grid, call>>

\* generateWorld is entered: the loop over the grid's cells starts
GenerateWorld(k) ==
    /\ sims[k].status = "ready" /\ sims[k].pc = "idle" /\ sims[k].runs < MaxRuns
    /\ sims' = [sims EXCEPT ![k] =
                  IF Len(sims[k].grid.cells) = 0
                  THEN [sims[k] EXCEPT !.runs = @ + 1]
                  ELSE [sims[k] EXCEPT !.pc = "pass1", !.i = 1]]
    /\ UNCHANGED <<config, grid, call>>

\* a first loop that hands over to the second after its first cell
FirstLoopEndsAtOnce(sim) == TRUE

\* the first loop has reached the last cell: the second loop starts only then
FirstLoopEnds(sim) == sim.i = Len(sim.grid.cells)

\* one iteration of the first loop
FirstPass(k) ==
    /\ sims[k].pc = "pass1"
    /\ LET sim  == sims[k]
           cell == sim.grid.cells[sim.i]
           rec  == FirstPassRecord(sim, cell, CellElevation(sim, cell))
           last == FirstLoopEnds(sim)
       IN  sims' = [sims EXCEPT ![k] =
                      [sim EXCEPT !.worldCells = (cell.cellId :> rec) @@ @,
                                  !.i = IF last THEN 1 ELSE @ + 1,
                                  !.pc = IF last THEN "pass2" ELSE "pass1"]]
    /\ UNCHANGED <<config, grid, call>>

\* one iteration of the second loop; the last one returns from generateWorld
SecondPass(k) ==
    /\ sims[k].pc = "pass2"
    /\ LET sim  == sims[k]
           cell == sim.grid.cells[sim.i]
           last == sim.i = Len(sim.grid.cells)
           wc   == IF cell.cellId \in DOMAIN sim.worldCells
                   THEN [sim.worldCells EXCEPT ![cell.cellId] = SecondPassRecord(sim, cell)]
                   ELSE sim.worldCells
       IN  sims' = [sims EXCEPT ![k] =
                      [sim EXCEPT !.worldCells = wc,
                                  !.i = IF last THEN 0 ELSE @ + 1,
                                  !.pc = IF last THEN "idle" ELSE "pass2",
                                  !.runs = IF last THEN @ + 1 ELSE @]]
    /\ UNCHANGED <<config, grid, call>>

Init ==
    /\ config \in Configs
    /\ sims = [k \in Sims |-> NoSim]
    /\ grid = NoGrid
    /\ call = NoCall

Next == Construct(1) \/ GenerateWorld(1) \/ FirstPass(1) \/ SecondPass(1)

Spec == Init /\ [][Next]_vars

(***************************************************************************)
(* SpecGrid: a GridSystem on its own, constructed and then queried         *)
(***************************************************************************)
GridConstruct ==
    /\ grid.status = "none"
    /\ \E resolution \in GridResolutions : grid' = NewGridSystem(resolution)
    /\ UNCHANGED <<config, sims, call>>

\* GridSystem.getCellAtLatLng
GridLocate ==
    /\ grid.status = "ok"
    /\ call.op = "none"
    /\ \E lat \in QueryLats, lng \in QueryLngs :
          call' = [op |-> "getCellAtLatLng", lat |-> lat, lng |-> lng,
                   result |-> latLngToCell(lat, lng, grid.resolution)]
    /\ UNCHANGED <<config, sims, grid>>

InitGrid == config = BaseConfig /\ sims = [k \in Sims |-> NoSim] /\ grid = NoGrid /\ call = NoCall

NextGrid == GridConstruct \/ GridLocate

SpecGrid == InitGrid /\ [][NextGrid]_vars


(***************************************************************************)
(* SpecDet: two WorldSimulator instances built from one configuration.     *)
(* The instances share no field, so one order of their steps is taken:     *)
(* instance 2 is constructed once instance 1 has returned from its first   *)
(* generateWorld, and instance 1 rests from then on.                       *)
(***************************************************************************)
RanOnce(sim) == sim.status = "ready" /\ sim.pc = "idle" /\ sim.runs = 1

DetTurn(k) == IF k = 1 THEN sims[2].status = "none" ELSE RanOnce(sims[1])

DetConfigs ==
    {[BaseConfig EXCEPT !.noiseConfig.seed = sd] : sd \in {<<97, 98>>, NoSeed, <<>>, <<98, 97>>}}
    \cup {[BaseConfig EXCEPT !.externalHeightMap = GoodRaster, !.noiseConfig.seed = sd] :
            sd \in {NoSeed, <<97, 98>>}}
    \cup {[BaseConfig EXCEPT !.parameters.rotationPeriod = 2802, !.noiseConfig.seed = sd] :
            sd \in {NoSeed, <<97, 98>>}}

DetConstruct(k) == DetTurn(k) /\ Construct(k)

DetGenerateWorld(k) == DetTurn(k) /\ sims[k].runs = 0 /\ GenerateWorld(k)

DetFirstPass(k) == DetTurn(k) /\ FirstPass(k)

DetSecondPass(k) == DetTurn(k) /\ SecondPass(k)

InitDet ==
    /\ config \in DetConfigs
    /\ sims = [k \in Sims |-> NoSim]
    /\ grid = NoGrid
    /\ call = NoCall

NextDet ==
    \E k \in Sims :
        DetConstruct(k) \/ DetGenerateWorld(k) \/ DetFirstPass(k) \/ DetSecondPass(k)

SpecDet == InitDet /\ [][NextDet]_vars

(***************************************************************************)
(* SpecCalls: single calls of the pure functions of the pipeline           *)
(***************************************************************************)
CallTemperatures ==
    {NaN, 0 - 3607, 0 - 1501, 0 - 1500, 0 - 1, 0, 999, 1000, 1999, 2000, 2250, 2499,
     2500, 3000}

CallPrecipitations ==
    {NaN, 0, 1999, 2000, 2499, 2500, 3999, 4000, 4999, 5000, 9999, 10000, 19999, 20000}

\* elevations as the pipeline passes them (elevation * 10000), and as metres
CallElevations ==
    {NaN, 0, 499, 500, 501, 1000, 4000499, 4000500, 4000501, 5000000, 10000000}

CallRotationPeriods == {24, 999, 1000, 1001, 2802}

\* hours; Undef when the caller gives none
CallTimesOfDay == {Undef, 0, 6, 12, 24}

CallLatitudes == {0 - 900, 0 - 600, 0, 300, 900}

CallLongitudes == {0 - 1800, 0 - 900, 0, 450, 900, 1800}

CallDensities == {0, 10, 1000}

CallSeaLevels == {0, 500}

\* the elevations of a terrain sample
SampleElevations == {0, 499, 500, 501, 1000}

\* a simulator after its constructor, with the parameters given
FreshSim(params) == [NoSim EXCEPT !.status = "ready", !.params = params]

\* BiomeClassifier.classifyBiome
CallClassifyBiome ==
    /\ call.op = "none"
    /\ \E seaLevel \in CallSeaLevels, temperature \in CallTemperatures,
          precipitation \in CallPrecipitations, elevation \in CallElevations :
          call' = [op |-> "classifyBiome", seaLevel |-> seaLevel,
                   temperature |-> temperature, precipitation |-> precipitation,
                   elevation |-> elevation,
                   result |-> classifyBiome(seaLevel, temperature, precipitation, elevation)]
    /\ UNCHANGED <<config, sims, grid>>

\* ClimateSimulator.calculateTemperature, seasonalDay 0
CallCalculateTemperature ==
    /\ call.op = "none"
    /\ \E rotationPeriod \in CallRotationPeriods, latitude \in CallLatitudes,
          longitude \in CallLongitudes, elevation \in {500, 5000000},
          atmosphereDensity \in CallDensities, timeOfDay \in CallTimesOfDay :
          LET params == initializeParameters(
                            [EarthParameters EXCEPT !.rotationPeriod = rotationPeriod,
                                                    !.atmosphereDensity = atmosphereDensity,
                                                    !.timeOfDay = timeOfDay])
          IN  call' = [op |-> "calculateTemperature", params |-> params,
                       latitude |-> latitude, longitude |-> longitude,
                       elevation |-> elevation,
                       insolation |-> Insolation(params, latitude, longitude, 0),
                       result |-> calculateTemperature(params, latitude, longitude,
                                                       elevation, 0)]
    /\ UNCHANGED <<config, sims, grid>>

\* the body of generateWorld's first loop for one cell of a new simulator
CallFirstPass ==
    /\ call.op = "none"
    /\ \E seaLevel \in CallSeaLevels, latitude \in CallLatitudes,
          longitude \in CallLongitudes, elevation \in SampleElevations :
          LET params == [initializeParameters(EarthParameters) EXCEPT !.seaLevel = seaLevel]
              cell   == [cellId |-> <<0, latitude, longitude>>, latitude |-> latitude,
                         longitude |-> longitude]
          IN  call' = [op |-> "firstPass", params |-> params, latitude |-> latitude,
                       longitude |-> longitude, elevation |-> elevation,
                       result |-> FirstPassRecord(FreshSim(params), cell, elevation)]
    /\ UNCHANGED <<config, sims, grid>>

\* the rasters handed to loadFromHeightMap
TallRaster == [width |-> 1, height |-> 3, data |-> <<100, 600, 900>>]

CallRasters == {GoodRaster, WildRaster, ShortRaster, EmptyRaster, TallRaster}

\* HeightMapGenerator.loadFromHeightMap
CallLoadFromHeightMap ==
    /\ call.op = "none"
    /\ \E heightMapData \in CallRasters, lat \in CallLatitudes, lng \in CallLongitudes :
          call' = [op |-> "loadFromHeightMap", heightMapData |-> heightMapData,
                   lat |-> lat, lng |-> lng,
                   index |-> HeightMapIndex(heightMapData, lat, lng),
                   result |-> loadFromHeightMap(heightMapData, lat, lng)]
    /\ UNCHANGED <<config, sims, grid>>

\* temperatures handed to calculatePrecipitation, hundredths of a degree C
PrecipitationTemperatures == {NaN, 0 - 4000, 0 - 1000, 0, 1000, 3000, 3001, 5000}

\* ClimateSimulator.calculatePrecipitation
CallCalculatePrecipitation ==
    /\ call.op = "none"
    /\ \E latitude \in CallLatitudes, elevation \in {500, 5000000},
          temperature \in PrecipitationTemperatures, distanceToOcean \in {0, 1000} :
          LET params == initializeParameters(EarthParameters)
          IN  call' = [op |-> "calculatePrecipitation", params |-> params,
                       latitude |-> latitude, elevation |-> elevation,
                       temperature |-> temperature, distanceToOcean |-> distanceToOcean,
                       tempEffect |-> IF IsNum(temperature) THEN TempEffect(temperature)
                                      ELSE NaN,
                       result |-> calculatePrecipitation(params, latitude, elevation,
                                                         temperature, distanceToOcean)]
    /\ UNCHANGED <<config, sims, grid>>

\* the customParams of a request body, as the client builds it
CustomParams ==
    [seaLevel : {0, 300}, orbitalTilt : {0, 235}, solarConstant : {1361},
     gridResolution : {0, 2}, atmosphereDensity : {0, 1000}, rotationPeriod : {24, 2802},
     orbitalPeriod : {100, 365}, timeOfDay : {0, 12}]

\* the parameters object the two generation endpoints build from customParams
CustomParameters(customParams) ==
    [radius            |-> 6371000,
     solarConstant     |-> JsOr(customParams.solarConstant, 1361),
     orbitalTilt       |-> JsOr(customParams.orbitalTilt, 235),
     rotationPeriod    |-> 24,
     orbitalPeriod     |-> Undef,
     seaLevel          |-> JsOr(customParams.seaLevel, 500),
     atmosphereDensity |-> JsOr(customParams.atmosphereDensity, 1000),
     gridResolution    |-> JsOr(customParams.gridResolution, 4),
     timeOfDay         |-> Undef]

\* POST /api/generate with presetId 'custom' and POST /api/generate-with-heightmap,
\* up to the parameters the constructor of WorldSimulator stores; the simulator
\* is local to the request, its construction and run are the actions of Spec
PostGenerate ==
    /\ call.op = "none"
    /\ \E customParams \in CustomParams, withHeightmap \in BOOLEAN :
          call' = [op |-> "postGenerate", customParams |-> customParams,
                   withHeightmap |-> withHeightmap,
                   parameters |-> CustomParameters(customParams),
                   result |-> initializeParameters(CustomParameters(customParams))]
    /\ UNCHANGED <<config, sims, grid>>

\* seed strings: "ab", "ba", "0.1", "0.7", "seed" and "GydZG_"
CallSeeds ==
    {<<97, 98>>, <<98, 97>>, <<48, 46, 49>>, <<48, 46, 55>>, <<115, 101, 101, 100>>,
     <<71, 121, 100, 90, 71, 95>>}

\* HeightMapGenerator.seedToRandom
CallSeedToRandom ==
    /\ call.op = "none"
    /\ \E seed \in CallSeeds :
          call' = [op |-> "seedToRandom", seed |-> seed,
                   hash |-> HashFrom(<<0, 0>>, seed, 1), result |-> seedToRandom(seed)]
    /\ UNCHANGED <<config, sims, grid>>

InitCalls == config = BaseConfig /\ sims = [k \in Sims |-> NoSim] /\ grid = NoGrid /\ call = NoCall

NextCalls ==
    \/ CallClassifyBiome \/ CallCalculateTemperature \/ CallFirstPass
    \/ CallLoadFromHeightMap \/ CallCalculatePrecipitation
    \/ PostGenerate \/ CallSeedToRandom

SpecCalls == InitCalls /\ [][NextCalls]_vars
(***************************************************************************)
(* SpecLookup: one WorldSimulator and the queries on its stored world.     *)
(* generateWorld runs to its end without interruption, so a query finds    *)
(* the simulator between two runs; the run of the model ends with it.      *)
(***************************************************************************)
\* a lookup that raises an error when the key is absent
MapGetOrThrow(worldCells, cellId) ==
    IF cellId \in DOMAIN worldCells
    THEN [outcome |-> "record", record |-> worldCells[cellId]]
    ELSE [outcome |-> "threw"]

\* Map.get: the stored value, or undefined
MapGet(worldCells, cellId) ==
    IF cellId \in DOMAIN worldCells
    THEN [outcome |-> "record", record |-> worldCells[cellId]]
    ELSE [outcome |-> "undefined"]

LookupIds == {<<0, 0, 0>>, <<0, 5, 7>>, <<0, 9, 0>>, <<1, 3, 3>>, <<0, 0, 1>>}

LookupLats == {0 - 900, 0 - 450, 0, 900}

LookupLngs == {0 - 1800, 0, 1795}

LookupConfigs ==
    {BaseConfig, [BaseConfig EXCEPT !.gridResolution = NaN],
     [BaseConfig EXCEPT !.externalHeightMap = GoodRaster],
     [BaseConfig EXCEPT !.gridResolution = 0, !.parameters.gridResolution = 1]}

\* WorldSimulator.getCellData
GetCellData(k) ==
    /\ sims[k].status = "ready" /\ sims[k].pc = "idle"
    /\ call.op = "none"
    /\ \E cellId \in LookupIds :
          call' = [op |-> "getCellData", cellId |-> cellId,
                   result |-> MapGet(sims[k].worldCells, cellId)]
    /\ UNCHANGED <<config, sims, grid>>

\* WorldSimulator.getCellAtLatLng
GetCellAtLatLng(k) ==
    /\ sims[k].status = "ready" /\ sims[k].pc = "idle"
    /\ call.op = "none"
    /\ \E lat \in LookupLats, lng \in LookupLngs :
          LET cellId == latLngToCell(lat, lng, sims[k].grid.resolution)
          IN  call' = [op |-> "getCellAtLatLng", lat |-> lat, lng |-> lng,
                       cellId |-> cellId,
                       result |-> MapGet(sims[k].worldCells, cellId)]
    /\ UNCHANGED <<config, sims, grid>>

\* Array.from(this.worldCells.values()): the records in insertion order, which
\* is the order of the grid's cells
getAllCells(sim) ==
    LET stored == SelectSeq(sim.grid.cells, LAMBDA c : c.cellId \in DOMAIN sim.worldCells)
    IN  [n \in 1..Len(stored) |-> sim.worldCells[stored[n].cellId]]

\* landCells counted from the biome label
LandCountByBiome(cells) == Cardinality({n \in 1..Len(cells) : cells[n].biome # "Ocean"})

\* the iterations of the loop of getStatistics that take the else branch
LandCount(cells) == Cardinality({n \in 1..Len(cells) : ~cells[n].isOcean})

\* the iterations that take the branch of cell.isOcean
OceanCount(cells) == Cardinality({n \in 1..Len(cells) : cells[n].isOcean})

\* biomeDistribution[cell.biome] is incremented once for every cell
BiomeDistribution(cells) ==
    [b \in {cells[n].biome : n \in 1..Len(cells)} |->
        Cardinality({n \in 1..Len(cells) : cells[n].biome = b})]

\* the counts of getStatistics; the two averages are not part of the model
StatisticsOf(cells) ==
    [totalCells |-> Len(cells), landCells |-> LandCount(cells),
     oceanCells |-> OceanCount(cells), biomeDistribution |-> BiomeDistribution(cells)]

getStatistics(sim) == StatisticsOf(getAllCells(sim))

\* WorldSimulator.getStatistics
GetStatistics(k) ==
    /\ sims[k].status = "ready" /\ sims[k].pc = "idle"
    /\ call.op = "none"
    /\ call' = [op |-> "getStatistics", result |-> getStatistics(sims[k])]
    /\ UNCHANGED <<config, sims, grid>>

\* WorldSimulator.getParameters: a copy of this.params
GetParameters(k) ==
    /\ sims[k].status = "ready" /\ sims[k].pc = "idle"
    /\ call.op = "none"
    /\ call' = [op |-> "getParameters", result |-> sims[k].params]
    /\ UNCHANGED <<config, sims, grid>>

LookupGenerateWorld(k) == call.op = "none" /\ GenerateWorld(k)

InitLookup ==
    /\ config \in LookupConfigs
    /\ sims = [k \in Sims |-> NoSim]
    /\ grid = NoGrid
    /\ call = NoCall

NextLookup ==
    \/ Construct(1) \/ LookupGenerateWorld(1) \/ FirstPass(1) \/ SecondPass(1)
    \/ GetCellData(1) \/ GetCellAtLatLng(1) \/ GetStatistics(1)
    \/ GetParameters(1)

SpecLookup == InitLookup /\ [][NextLookup]_vars

(***************************************************************************)
(* Properties                                                              *)
(***************************************************************************)
BothRanOnce == RanOnce(sims[1]) /\ RanOnce(sims[2])

SeedGiven == config.noiseConfig.seed # NoSeed /\ config.noiseConfig.seed # <<>>

\* C1 as stated: two instances built from one configuration, seed given or not,
\* hold identical cell records after each has run generateWorld once
C1_IdenticalForAnySeed == BothRanOnce => sims[1].worldCells = sims[2].worldCells

\* C1: two instances built from one configuration that names a non-empty seed or
\* supplies an external heightmap hold identical cell records after each has run
\* generateWorld once
C1_IdenticalForFixedSeed ==
    (BothRanOnce /\ (SeedGiven \/ config.externalHeightMap # NoHeightMap))
        => sims[1].worldCells = sims[2].worldCells

C1_Witness ==
    /\ BothRanOnce
    /\ SeedGiven
    /\ config.externalHeightMap = NoHeightMap
    /\ sims[1].heightMapGenerator.seed = <<98, 97>>
    /\ Cardinality(DOMAIN sims[2].worldCells) = H3CellCount(0)
    /\ sims[1].worldCells = sims[2].worldCells

\* C2: at every supported resolution 0..15 the id getCellAtLatLng computes for a
\* legal coordinate is one of the ids the grid built
C2_LocateHitsBuiltCell ==
    (call.op = "getCellAtLatLng" /\ grid.status = "ok" /\ grid.resolution \in 0..15)
        => call.result \in GridIds(grid)

\* C3: every cell record stored by generateWorld has isOcean true exactly when its
\* normalized elevation is below the normalized seaLevel, during and after a run
C3_OceanIffBelowSeaLevel ==
    \A id \in DOMAIN sims[1].worldCells :
        sims[1].worldCells[id].isOcean
            <=> (/\ IsNum(sims[1].worldCells[id].elevation)
                 /\ sims[1].worldCells[id].elevation < sims[1].params.seaLevel)

C3_Witness ==
    /\ sims[1].pc = "pass1"
    /\ \E a, b, c \in DOMAIN sims[1].worldCells :
          /\ sims[1].worldCells[a].isOcean
          /\ sims[1].worldCells[a].elevation = sims[1].params.seaLevel - 1
          /\ ~sims[1].worldCells[b].isOcean
          /\ sims[1].worldCells[b].elevation = sims[1].params.seaLevel
          /\ ~sims[1].worldCells[c].isOcean
          /\ sims[1].worldCells[c].elevation > sims[1].params.seaLevel

\* C4: every stored cell record's elevation lies in [0, 1], whether it comes from
\* the noise or from a caller-supplied raster
C4_ElevationInUnitRange ==
    \A id \in DOMAIN sims[1].worldCells :
        /\ IsNum(sims[1].worldCells[id].elevation)
        /\ sims[1].worldCells[id].elevation >= 0
        /\ sims[1].worldCells[id].elevation <= 1000

ScenarioParameters == initializeParameters(EarthParameters)

\* C5: with the scenario parameters, the cell at latitude 0, longitude 0 whose
\* normalized elevation is 0.5 leaves the pipeline as a non-ocean cell whose biome
\* is none of Ice, Tundra, Alpine
C5_SeaLevelEquatorCell ==
    (/\ call.op = "firstPass"
     /\ call.params = ScenarioParameters
     /\ call.latitude = 0 /\ call.longitude = 0 /\ call.elevation = 500)
        => (/\ ~call.result.isOcean
            /\ call.result.biome \notin {"Ice", "Tundra", "Alpine"})

\* C6: calculateTemperature uses the locked-regime insolation exactly when
\* rotationPeriod >= 1000, the rotating-regime insolation otherwise
C6_LockedFromThousand ==
    call.op = "calculateTemperature"
        => call.result =
             TemperatureAt(call.params,
                insolationToTemperature(
                    IF call.params.rotationPeriod >= 1000
                    THEN LockedInsolation(call.params, call.latitude, call.longitude)
                    ELSE RotatingInsolation(call.params, call.latitude, 0)),
                call.elevation)

\* C7: classifyBiome returns one of the 12 BiomeType labels for every triple,
\* NaN arguments included
C7_ClassifyTotal == call.op = "classifyBiome" => call.result \in BiomeType

C7_Witness ==
    /\ call.op = "classifyBiome"
    /\ call.temperature = NaN /\ call.precipitation = NaN /\ call.elevation = NaN
    /\ call.result = "Tropical Rainforest"

\* C8: first match wins: elevation < seaLevel gives Ocean; otherwise elevation >
\* seaLevel + 4000 gives Alpine; otherwise temperature < -15 gives Ice; otherwise
\* temperature < 0 gives Tundra
C8_Precedence ==
    (call.op = "classifyBiome" /\ IsNum(call.elevation) /\ IsNum(call.temperature))
        => IF call.elevation < call.seaLevel THEN call.result = "Ocean"
           ELSE IF call.elevation > call.seaLevel + 4000000 THEN call.result = "Alpine"
           ELSE IF call.temperature < 0 - 1500 THEN call.result = "Ice"
           ELSE call.temperature < 0 => call.result = "Tundra"

C8_Witness ==
    /\ call.op = "classifyBiome"
    /\ call.elevation = 5000000 /\ call.seaLevel = 500
    /\ call.temperature = 0 - 3607
    /\ call.result = "Alpine"

WarmLandCall ==
    /\ call.op = "classifyBiome"
    /\ IsNum(call.elevation)
    /\ call.elevation >= call.seaLevel /\ call.elevation <= call.seaLevel + 4000000
    /\ IsNum(call.temperature)
    /\ call.temperature >= 2000 /\ call.temperature < 2500

\* C9 as stated: a land, non-alpine input with 20 <= temperature < 25 is Desert,
\* Temperate Grassland, Temperate Forest or Tropical Seasonal Forest
C9_WarmBandWithDesert ==
    WarmLandCall
        => call.result \in {"Desert", "Temperate Grassland", "Temperate Forest",
                            "Tropical Seasonal Forest"}

\* C9: a land, non-alpine input with 20 <= temperature < 25 is Subtropical Desert
\* (precipitation < 200), Temperate Grassland (< 500), Temperate Forest (< 1000)
\* or Tropical Seasonal Forest
C9_WarmBandWithSubtropicalDesert ==
    WarmLandCall
        => call.result =
             (IF JsLt(call.precipitation, 2000) THEN "Subtropical Desert"
              ELSE IF JsLt(call.precipitation, 5000) THEN "Temperate Grassland"
              ELSE IF JsLt(call.precipitation, 10000) THEN "Temperate Forest"
              ELSE "Tropical Seasonal Forest")

C9_Witness ==
    /\ WarmLandCall
    /\ call.precipitation = 1999
    /\ call.result = "Subtropical Desert"

\* the resolution the constructor hands to GridSystem
RequestedResolution ==
    JsNullish(config.gridResolution, initializeParameters(config.parameters).gridResolution)

\* C10: a construction with a resolution outside 0..15, or one that is no integer
\* resolution, throws in the constructor, with no grid cell built and no record written
C10_BadResolutionThrows ==
    (sims[1].status # "none" /\ RequestedResolution \notin 0..15)
        => (/\ sims[1].status = "threw"
            /\ Len(sims[1].grid.cells) = 0
            /\ DOMAIN sims[1].worldCells = {})

MalformedRaster(h) ==
    /\ h # NoHeightMap
    /\ (h.width <= 0 \/ h.height <= 0 \/ Len(h.data) # h.width * h.height)

\* C11: a heightmap with a non-positive width or height, or with data whose
\* length is not width * height, fails the request before any cell is processed:
\* no cell record is ever written from it
C11_MalformedRasterWritesNothing ==
    MalformedRaster(config.externalHeightMap) => DOMAIN sims[1].worldCells = {}

Completed(sim) == sim.status = "ready" /\ sim.pc = "idle" /\ sim.runs >= 1

\* C12: after generateWorld completes every cell record has windSpeed in [1, 50]
\* and windDirection in [0, 360)
C12_WindInRange ==
    Completed(sims[1])
        => \A id \in DOMAIN sims[1].worldCells :
              /\ IsNum(sims[1].worldCells[id].windSpeed)
              /\ sims[1].worldCells[id].windSpeed >= 100
              /\ sims[1].worldCells[id].windSpeed <= 5000
              /\ IsNum(sims[1].worldCells[id].windDirection)
              /\ sims[1].worldCells[id].windDirection >= 0
              /\ sims[1].worldCells[id].windDirection < 3600

\* C13: every cell record produced by generateWorld has precipitation >= 0
C13_PrecipitationNonNegative ==
    \A id \in DOMAIN sims[1].worldCells :
        /\ IsNum(sims[1].worldCells[id].precipitation)
        /\ sims[1].worldCells[id].precipitation >= 0

AntisolarCall ==
    /\ call.op = "calculateTemperature"
    /\ call.params.rotationPeriod = 2802
    /\ call.longitude = 1800

\* C14 as stated: in the locked regime, at longitude 180, the insolation is the
\* ambient floor atmosphereDensity * 5 and is not zero, for every latitude
C14_AntisolarFloorNotZero ==
    AntisolarCall
        => (call.insolation = call.params.atmosphereDensity * 5 /\ call.insolation # 0)

\* C14: in the locked regime, at longitude 180, the insolation is the ambient
\* floor atmosphereDensity * 5 for every latitude, and it is not zero when
\* atmosphereDensity > 0
C14_AntisolarFloor ==
    AntisolarCall
        => /\ call.insolation = call.params.atmosphereDensity * 5
           /\ call.params.atmosphereDensity > 0 => call.insolation > 0

C14_Witness ==
    /\ AntisolarCall
    /\ call.latitude = 300
    /\ call.params.atmosphereDensity = 1000
    /\ call.insolation = 5000

LookupCall == call.op \in {"getCellData", "getCellAtLatLng"}

\* C15: getCellData and getCellAtLatLng whose id matches no record return
\* undefined without throwing, before generateWorld has run as well, and no
\* query changes the stored world
C15_LookupMissIsUndefined ==
    /\ [](LookupCall
            => /\ call.result.outcome # "threw"
               /\ call.cellId \notin DOMAIN sims[1].worldCells
                     => call.result.outcome = "undefined")
    /\ [][(call' # call /\ call'.op \in {"getCellData", "getCellAtLatLng"})
            => sims' = sims]_vars

C15_Witness ==
    /\ call.op = "getCellAtLatLng"
    /\ sims[1].runs = 0
    /\ sims[1].grid.status = "ok" /\ Len(sims[1].grid.cells) = H3CellCount(0)
    /\ call.result.outcome = "undefined"

\* C16: the number of cells a GridSystem builds at resolution r is the total
\* number of H3 cells of that resolution (122 at r = 0, 842 at r = 1)
C16_BuildsEveryCell ==
    (grid.status = "ok" /\ grid.resolution \in 0..15)
        => Len(grid.cells) = H3CellCount(grid.resolution)

\* the distances from a cell to the stored ocean records within 500 km
StoredOceanDistances(sim, cell) ==
    {haversineDistance(sim.params, cell.latitude, cell.longitude,
                       sim.grid.cells[n].latitude, sim.grid.cells[n].longitude) :
        n \in {m \in 1..Len(sim.grid.cells) :
                 /\ haversineDistance(sim.params, cell.latitude, cell.longitude,
                                      sim.grid.cells[m].latitude,
                                      sim.grid.cells[m].longitude) < 500
                 /\ sim.grid.cells[m].cellId \in DOMAIN sim.worldCells
                 /\ sim.worldCells[sim.grid.cells[m].cellId].isOcean}}

NearestStoredOcean(sim, cell, isOcean) ==
    IF isOcean THEN 0
    ELSE IF StoredOceanDistances(sim, cell) = {} THEN 1000
    ELSE Min(StoredOceanDistances(sim, cell))

\* C17: the distance the first pass gives a cell is 0 for an ocean cell and, for
\* a land cell, the distance to the nearest stored ocean record within 500 km,
\* 1000 only when there is none
C17_DistanceToStoredOcean ==
    sims[1].pc = "pass1"
        => LET sim     == sims[1]
               cell    == sim.grid.cells[sim.i]
               isOcean == IsOceanAt(sim.params, CellElevation(sim, cell))
           IN  DistanceToOceanOf(sim, cell, isOcean) = NearestStoredOcean(sim, cell, isOcean)

\* C18: while the second pass computes winds every grid cell has its first-pass
\* record, and while the first pass runs no record it has written carries a
\* computed wind: no wind computation precedes a first-pass write
C18_BarrierBetweenPasses ==
    LET sim   == sims[1]
        cells == sim.grid.cells
    IN  /\ sim.pc = "pass2"
            => \A n \in 1..Len(cells) : cells[n].cellId \in DOMAIN sim.worldCells
        /\ sim.pc = "pass1"
            => \A n \in 1..(sim.i - 1) :
                  /\ sim.worldCells[cells[n].cellId].windSpeed = 0
                  /\ sim.worldCells[cells[n].cellId].windDirection = 0

C18_Witness ==
    LET sim   == sims[1]
        cells == sim.grid.cells
    IN  /\ sim.pc = "pass2" /\ sim.runs = 0
        /\ \E n \in 1..(sim.i - 1) :
              /\ WindNeighbors(sim, cells[n].latitude, cells[n].longitude) # <<>>
              /\ sim.worldCells[cells[n].cellId].windSpeed > 0

\* a record without its wind
Windless(cellData) == [cellData EXCEPT !.windSpeed = 0, !.windDirection = 0]

\* C19: an iteration of the first pass stores its record with windSpeed = 0 and
\* windDirection = 0, and an iteration of the second pass leaves every field of
\* every record except windSpeed and windDirection as it was
C19_SecondPassWritesOnlyWind ==
    [][/\ sims[1].pc = "pass1"
          => LET id == sims[1].grid.cells[sims[1].i].cellId
             IN  /\ id \in DOMAIN sims'[1].worldCells
                 /\ sims'[1].worldCells[id].windSpeed = 0
                 /\ sims'[1].worldCells[id].windDirection = 0
       /\ sims[1].pc = "pass2"
          => /\ DOMAIN sims'[1].worldCells = DOMAIN sims[1].worldCells
             /\ \A id \in DOMAIN sims[1].worldCells :
                   Windless(sims'[1].worldCells[id]) = Windless(sims[1].worldCells[id])]_vars

C19_Witness ==
    /\ sims[1].pc = "idle" /\ sims[1].runs = 1
    /\ \E id \in DOMAIN sims[1].worldCells :
          /\ sims[1].worldCells[id].windSpeed >= 100
          /\ sims[1].worldCells[id].isOcean
          /\ sims[1].worldCells[id].precipitation > 0

\* C20: a cell whose elevation equals seaLevel gets no lapse-rate correction
\* from the generation pipeline: its temperature is the base temperature of its
\* insolation plus the greenhouse offset
C20_NoLapseAtSeaLevel ==
    (call.op = "firstPass" /\ call.elevation = call.params.seaLevel)
        => call.result.temperature
             = insolationToTemperature(Insolation(call.params, call.latitude,
                                                  call.longitude, 0))
               + (call.params.atmosphereDensity * 3) \div 2

\* C21: for a raster with positive width and height and a coordinate inside
\* the legal ranges loadFromHeightMap reads an index in [0, width * height); the
\* column is the one holding the longitude, with lng = 180 read from column 0,
\* and the row is the one holding the latitude, with lat = -90 wrapped to row 0
C21_IndexInsideRaster ==
    (/\ call.op = "loadFromHeightMap"
     /\ call.heightMapData.width > 0 /\ call.heightMapData.height > 0)
        => LET width  == call.heightMapData.width
               height == call.heightMapData.height
               x      == call.index % width
               y      == call.index \div width
           IN  /\ IsNum(call.index)
               /\ call.index >= 0 /\ call.index < width * height
               /\ IF call.lng = 1800 THEN x = 0
                  ELSE x * 3600 <= (call.lng + 1800) * width
                       /\ (call.lng + 1800) * width < (x + 1) * 3600
               /\ IF call.lat = 0 - 900 THEN y = 0
                  ELSE y * 1800 <= (900 - call.lat) * height
                       /\ (900 - call.lat) * height < (y + 1) * 1800

C21_Witness ==
    /\ call.op = "loadFromHeightMap"
    /\ call.heightMapData = GoodRaster
    /\ call.lat = 0 - 900 /\ call.lng = 1800
    /\ call.index = 0 /\ call.result = 0

\* C22: for a body that is not locked the insolation follows the hour angle of
\* the timeOfDay given: timeOfDay = 0 has the hour angle of midnight, as
\* timeOfDay = 24 has, and is not replaced by noon
C22_TimeOfDayZeroIsMidnight ==
    (call.op = "calculateTemperature" /\ ~isTidallyLocked(call.params))
        => call.insolation
             = RotatingInsolation([call.params EXCEPT !.timeOfDay = IF @ = 0 THEN 24 ELSE @],
                                  call.latitude, 0)

\* C23: the temperature-driven term of calculatePrecipitation lies between 0
\* and 500 mm for every temperature, above 30 degrees C as well
C23_TempEffectClamped ==
    (call.op = "calculatePrecipitation" /\ IsNum(call.temperature))
        => (call.tempEffect >= 0 /\ call.tempEffect <= 5000)

\* C24: after a generateWorld run a record has isOcean true exactly when its
\* biome is Ocean
C24_OceanFlagIffOceanBiome ==
    Completed(sims[1])
        => \A id \in DOMAIN sims[1].worldCells :
              sims[1].worldCells[id].isOcean <=> sims[1].worldCells[id].biome = "Ocean"

\* C25: a second generateWorld on the same simulator stores the records of the
\* first: when its first pass rewrites a cell, the record differs from the one
\* the first run left only in the wind, which the second pass sets again
C25_SecondRunRepeatsFirst ==
    [][(sims[1].pc = "pass1" /\ sims[1].runs >= 1)
          => LET id == sims[1].grid.cells[sims[1].i].cellId
             IN  Windless(sims'[1].worldCells[id]) = Windless(sims[1].worldCells[id])]_vars

\* C26: while generateWorld runs, the wind step applies the Coriolis deflection
\* exactly when the temperature step uses the rotating-regime formula
C26_RegimesAgree ==
    sims[1].pc \in {"pass1", "pass2"}
        => (WindIsRotating(sims[1].params) <=> ~isTidallyLocked(sims[1].params))

RECURSIVE SumOf(_, _)
\* the sum of the values of f over the keys in S
SumOf(f, S) ==
    IF S = {} THEN 0
    ELSE LET key == CHOOSE x \in S : TRUE
         IN  f[key] + SumOf(f, S \ {key})

\* C27: for an empty world and for a generated one getStatistics returns
\* landCells + oceanCells = totalCells = the number of stored records, and the
\* counts of biomeDistribution sum to totalCells
C27_StatisticsAddUp ==
    call.op = "getStatistics"
        => /\ call.result.landCells + call.result.oceanCells = call.result.totalCells
           /\ call.result.totalCells = Cardinality(DOMAIN sims[1].worldCells)
           /\ SumOf(call.result.biomeDistribution, DOMAIN call.result.biomeDistribution)
                 = call.result.totalCells

C27_Witness ==
    /\ call.op = "getStatistics"
    /\ call.result.totalCells = H3CellCount(0)
    /\ call.result.oceanCells > 0 /\ call.result.landCells > 0
    /\ Cardinality(DOMAIN call.result.biomeDistribution) > 1

\* C28: the gridResolution that getParameters returns is the resolution of the
\* grid the simulator built
C28_ParametersEchoGridResolution ==
    (call.op = "getParameters" /\ sims[1].grid.resolution \in 0..15)
        => call.result.gridResolution = sims[1].grid.resolution

\* C29: a custom generation request builds the world from the values the client
\* sent: each of the eight customParams is the value the simulator is
\* constructed with, values equal to 0 included
C29_CustomParamsReachSimulator ==
    call.op = "postGenerate"
        => /\ call.result.seaLevel = call.customParams.seaLevel
           /\ call.result.solarConstant = call.customParams.solarConstant
           /\ call.result.orbitalTilt = call.customParams.orbitalTilt
           /\ call.result.atmosphereDensity = call.customParams.atmosphereDensity
           /\ call.result.gridResolution = call.customParams.gridResolution
           /\ call.result.rotationPeriod = call.customParams.rotationPeriod
           /\ call.result.orbitalPeriod = call.customParams.orbitalPeriod
           /\ call.result.timeOfDay = call.customParams.timeOfDay

\* C30: seedToRandom returns a number in [0, 1) for every seed string: the
\* numerator of Math.abs(hash) / 2147483648 is below 2147483648 = <<32768, 0>>
C30_SeedToRandomBelowOne ==
    call.op = "seedToRandom"
        => /\ call.result[1] >= 0 /\ call.result[2] >= 0
           /\ call.result[1] < 32768
====
